---- MODULE Spec2Model ----
(***************************************************************************)
(* fsconsul: one watcher goroutine (watch) and one reconciler              *)
(* (watchMappingAndExec) per configured mapping, started and collected by  *)
(* watchAndExec.  Strings are sequences of one-character strings, so that  *)
(* prefix trimming and path construction are computed as the code does.    *)
(***************************************************************************)
EXTENDS Integers, Sequences, FiniteSets, TLC

VARIABLES
    config,      \* *WatchConfig: RunOnce and Mappings (mutated by each unit)
    world,       \* the run's surroundings: platform, the store's keys, its changes,
                 \* and the root paths as they were configured
    store,       \* the remote K/V store: key -> value
    storeIndex,  \* the store's consistency index (meta.LastIndex of a List)
    fs,          \* the filesystem: path -> file content
    spc,         \* watchAndExec: position
    si,          \* watchAndExec: i of the collecting loop
    failures,    \* watchAndExec: failures
    result,      \* watchAndExec: the value returned
    rpc,         \* per mapping: position of the unit goroutine / watchMappingAndExec
    returnCode,  \* per mapping: the (int, error) watchMappingAndExec returned
    env,         \* per mapping: env
    newEnv,      \* per mapping: newEnv of the cycle in progress
    nOpen,       \* per mapping: file handles opened by os.Create and not yet closed
    errCh,       \* per mapping: errCh (buffered, capacity 1)
    quitCh,      \* per mapping: how many times quitCh was closed
    wpc,         \* per mapping: position of the watch goroutine
    curIndex,    \* per mapping: watch's curIndex
    wres,        \* per mapping: watch's (pairs, meta, err)
    ri,          \* per mapping: retryableList's i
    running,     \* per mapping: on-change child processes started and not yet exited
    hist         \* per mapping: what happened (attempts, sleeps, deliveries, cycle log)

vars == <<config, world, store, storeIndex, fs, spc, si, failures, result,
          rpc, returnCode, env, newEnv, nOpen, errCh, quitCh, wpc, curIndex,
          wres, ri, running, hist>>

(***************************************************************************)
(* Bounds of the model.                                                    *)
(***************************************************************************)
\* the store is modified at most this many times in a run with one mapping
MaxIndex == 2
\* the store is modified at most this many times in the other runs
MaxIndexSmall == 0
\* nOpen counts up to this many leaked handles ("MaxOpen or more")
MaxOpen == 1

\* retryableList gives up once i has reached this many retries
RetryLimit == 3

(***************************************************************************)
(* Strings.                                                                *)
(***************************************************************************)
Slash == "/"
BackSlash == "\\"
Quote == "\""

\* strings.HasPrefix
HasPrefix(s, p) == Len(s) >= Len(p) /\ SubSeq(s, 1, Len(p)) = p

\* strings.TrimPrefix
TrimPrefix(s, p) == IF HasPrefix(s, p) THEN SubSeq(s, Len(p) + 1, Len(s)) ELSE s

\* strings.TrimLeft with a one-character cutset
RECURSIVE TrimLeft(_, _)
TrimLeft(s, c) == IF s # <<>> /\ Head(s) = c THEN TrimLeft(Tail(s), c) ELSE s

\* strings.Replace(s, old, new, -1) for one-character old and new
ReplaceAll(s, old, new) == [i \in 1..Len(s) |-> IF s[i] = old THEN new ELSE s[i]]

\* os.PathSeparator of the platform
PathSeparator(p) == IF p = "windows" THEN BackSlash ELSE Slash

(***************************************************************************)
(* Go values.                                                              *)
(***************************************************************************)
NoErr == "nil"
Err == "error"

\* a Go map[string]string: nil, or a (possibly empty) map
EmptyKV == [k \in {} |-> <<>>]
NilMap == [isNil |-> TRUE, kv |-> EmptyKV]
MakeMap == [isNil |-> FALSE, kv |-> EmptyKV]

\* m[k] = v
MapSet(m, k, v) == [isNil |-> FALSE, kv |-> (k :> v) @@ m.kv]

Keys(m) == DOMAIN m.kv

\* a comparison that never finds two maps equal
DeepEqualNever(a, b) == FALSE

\* reflect.DeepEqual on two map[string]string: a nil map equals no non-nil map
DeepEqual(a, b) == a.isNil = b.isNil /\ a.kv = b.kv

\* strings.Split(s, sep) for a one-character sep
RECURSIVE SplitFrom(_, _, _, _)
SplitFrom(s, sep, cur, acc) ==
    IF s = <<>> THEN Append(acc, cur)
    ELSE IF Head(s) = sep THEN SplitFrom(Tail(s), sep, <<>>, Append(acc, cur))
    ELSE SplitFrom(Tail(s), sep, Append(cur, Head(s)), acc)
Split(s, sep) == SplitFrom(s, sep, <<>>, <<>>)

(***************************************************************************)
(* Configurations and worlds the runs start from.                          *)
(***************************************************************************)
\* the wrapped read of a retryableList call fails until its attempt number okAt: any
\* attempt up to the one after the last retry, or beyond (it fails every time)
AllReads == 1..(RetryLimit + 2)
\* the same, for reads that succeed at once or fail every time
SomeReads == {1, RetryLimit + 2}

\* MappingConfig; a nil OnChange is the empty argv, an unset Keystore the empty string
MappingConfig(prefix, path, raw, onChange, keystore) ==
    [OnChange |-> onChange, OnChangeRaw |-> raw, Prefix |-> prefix, Path |-> path,
     Keystore |-> keystore]

\* values of the store: byte 1 is plain text, byte 2 a tagged (encrypted) segment
Values == { <<1>>, <<2>> }

KeyPA == <<"p", "/", "a">>
KeyPSlashA == <<"p", "/", "/", "a">>
KeyPB == <<"p", "/", "b">>
KeyQA == <<"q", "/", "a">>
KeyPDA == <<"p", "/", "d", "/", "a">>

\* one mapping, prefix "/p" to path "o", with or without command and keystore
OneMapping(once, raw, keystore) ==
    [RunOnce |-> once,
     Mappings |-> << MappingConfig(<<"/", "p">>, <<"o">>, raw, <<>>, keystore) >>,
     platform |-> "unix",
     keyspace |-> << KeyPSlashA, KeyPB >>,
     changes |-> MaxIndex,
     reads |-> SomeReads,
     store |-> (KeyPSlashA :> <<2>>) @@ (KeyPB :> <<1>>),
     fs |-> (<<"o", "/", "z">> :> <<9>>)]

\* two mappings, prefixes "p" and "q", each with a command given as argv
TwoMappings(once) ==
    [RunOnce |-> once,
     Mappings |-> << MappingConfig(<<"p">>, <<"o", "/">>, <<>>, << <<"c">> >>, <<>>),
                     MappingConfig(<<"q">>, <<"u", "/">>, <<>>, << <<"c">> >>, <<>>) >>,
     platform |-> "unix",
     keyspace |-> << KeyPA, KeyQA >>,
     changes |-> MaxIndexSmall,
     reads |-> SomeReads,
     store |-> (KeyPA :> <<1>>) @@ (KeyQA :> <<1>>),
     fs |-> EmptyKV]

\* two store keys with the same relative key
Colliding ==
    [RunOnce |-> TRUE,
     Mappings |-> << MappingConfig(<<"p">>, <<"o", "/">>, <<>>, <<>>, <<>>) >>,
     platform |-> "unix",
     keyspace |-> << KeyPSlashA, KeyPA >>,
     changes |-> MaxIndexSmall,
     reads |-> AllReads,
     store |-> (KeyPSlashA :> <<1>>) @@ (KeyPA :> <<2>>),
     fs |-> EmptyKV]

\* a Windows build, the root path given with a trailing quote, a key with a folder
Windows(once) ==
    [RunOnce |-> once,
     Mappings |-> << MappingConfig(<<"p">>, <<"o", Quote>>, <<>>, <<>>, <<>>) >>,
     platform |-> "windows",
     keyspace |-> << KeyPDA >>,
     changes |-> MaxIndexSmall,
     reads |-> AllReads,
     store |-> (KeyPDA :> <<1>>),
     fs |-> EmptyKV]

Scenarios ==
    { OneMapping(FALSE, <<"c", " ", "x">>, <<"k">>),
      OneMapping(FALSE, <<>>, <<>>),
      OneMapping(TRUE, <<"c", " ", "x">>, <<>>),
      OneMapping(TRUE, <<>>, <<"k">>) }
    \cup { TwoMappings(TRUE), Colliding, Windows(TRUE), Windows(FALSE) }

Units == 1..Len(config.Mappings)

\* what is recorded about one mapping's run
NoHist ==
    [okAt |-> 0,            \* the attempt at which the read of this call succeeds
     attempts |-> 0,        \* calls of the wrapped read in the last retryableList call
     failed |-> 0,          \* how many of them returned an error
     slept |-> 0,           \* seconds slept in the last retryableList call
     initFailed |-> FALSE,  \* the initial List returned an error
     okIndex |-> 0,         \* meta.LastIndex of the last read of watch that succeeded
     lastPairs |-> <<>>,    \* <<the snapshot received last>>, empty before the first
     discarded |-> FALSE,   \* the snapshot received last was discarded as unchanged
     cycles |-> 0,          \* accepted cycles started
     prevEnv |-> NilMap,    \* during a cycle: env when the cycle was accepted
     rm |-> EmptyKV,        \* after the deletions of a cycle: key -> error of os.Remove
     ops |-> EmptyKV,       \* after the writes of a cycle: key -> how its turn ended
     cmdRuns |-> 0,         \* on-change commands started
     cmdFailed |-> FALSE]   \* the on-change command failed

Init ==
    \E sc \in Scenarios :
        /\ config = [RunOnce |-> sc.RunOnce, Mappings |-> sc.Mappings]
        /\ world = [platform |-> sc.platform, keyspace |-> sc.keyspace,
                     changes |-> sc.changes, reads |-> sc.reads,
                     paths |-> [m \in 1..Len(sc.Mappings) |-> sc.Mappings[m].Path]]
        /\ store = sc.store
        /\ storeIndex = 0
        /\ fs = sc.fs
        /\ spc = "collect"
        /\ si = 0
        /\ failures = FALSE
        /\ result = 0
        /\ rpc = [m \in 1..Len(sc.Mappings) |-> "start"]
        /\ returnCode = [m \in 1..Len(sc.Mappings) |-> [code |-> 0, err |-> NoErr]]
        /\ env = [m \in 1..Len(sc.Mappings) |-> NilMap]
        /\ newEnv = [m \in 1..Len(sc.Mappings) |-> NilMap]
        /\ nOpen = [m \in 1..Len(sc.Mappings) |-> 0]
        /\ errCh = [m \in 1..Len(sc.Mappings) |-> <<>>]
        /\ quitCh = [m \in 1..Len(sc.Mappings) |-> 0]
        /\ wpc = [m \in 1..Len(sc.Mappings) |-> "idle"]
        /\ curIndex = [m \in 1..Len(sc.Mappings) |-> 0]
        /\ wres = [m \in 1..Len(sc.Mappings) |-> [pairs |-> <<>>, meta |-> 0, err |-> NoErr]]
        /\ ri = [m \in 1..Len(sc.Mappings) |-> 0]
        /\ running = [m \in 1..Len(sc.Mappings) |-> 0]
        /\ hist = [m \in 1..Len(sc.Mappings) |-> NoHist]

(***************************************************************************)
(* The remote store (Consul K/V).                                          *)
(***************************************************************************)
SeqToSet(s) == { s[i] : i \in 1..Len(s) }

\* another client sets a key
StorePut ==
    /\ storeIndex < world.changes
    /\ \E k \in SeqToSet(world.keyspace), v \in Values :
        /\ (k \in DOMAIN store => store[k] # v)
        /\ store' = (k :> v) @@ store
    /\ storeIndex' = storeIndex + 1
    /\ UNCHANGED <<config, world, fs, spc, si, failures, result, rpc,
                   returnCode, env, newEnv, nOpen, errCh, quitCh, wpc, curIndex,
                   wres, ri, running, hist>>

\* another client deletes a key
StoreDelete ==
    /\ storeIndex < world.changes
    /\ \E k \in DOMAIN store :
        store' = [x \in DOMAIN store \ {k} |-> store[x]]
    /\ storeIndex' = storeIndex + 1
    /\ UNCHANGED <<config, world, fs, spc, si, failures, result, rpc,
                   returnCode, env, newEnv, nOpen, errCh, quitCh, wpc, curIndex,
                   wres, ri, running, hist>>

\* client.KV().List(prefix, opts): the pairs under the prefix, in key order
ListPairs(prefix) ==
    LET held(k) == k \in DOMAIN store /\ HasPrefix(k, prefix)
        ks == SelectSeq(world.keyspace, held)
    IN  [i \in 1..Len(ks) |-> [Key |-> ks[i], Value |-> store[ks[i]]]]

(***************************************************************************)
(* watch and retryableList.                                                *)
(***************************************************************************)
\* the frame of a step of mapping m's watch goroutine
WatchFrame ==
    UNCHANGED <<config, world, store, storeIndex, fs, spc, si, failures,
                result, rpc, returnCode, env, newEnv, nOpen, quitCh, running>>

\* the seconds retryableList sleeps after failure number i
Backoff(i) == i * 2

\* watch, up to the initial send: mkdirp of the root, then the initial List without retry
WatchInit(m) ==
    /\ wpc[m] = "init"
    /\ \E e \in {NoErr, Err} :
        IF e # NoErr
        THEN /\ errCh' = [errCh EXCEPT ![m] = Append(@, e)]
             /\ wpc' = [wpc EXCEPT ![m] = "stopped"]
             /\ hist' = [hist EXCEPT ![m].initFailed = TRUE]
             /\ UNCHANGED wres
        ELSE /\ wres' = [wres EXCEPT ![m] =
                            [pairs |-> ListPairs(config.Mappings[m].Prefix),
                             meta |-> storeIndex, err |-> NoErr]]
             /\ wpc' = [wpc EXCEPT ![m] = "send0"]
             /\ hist' = [hist EXCEPT ![m].okIndex = storeIndex]
             /\ UNCHANGED errCh
    /\ UNCHANGED <<curIndex, ri>>
    /\ WatchFrame

\* top of watch's loop: the non-blocking look at quitCh, then the call of retryableList
WatchLoop(m) ==
    /\ wpc[m] = "loop"
    /\ IF quitCh[m] > 0
       THEN /\ wpc' = [wpc EXCEPT ![m] = "stopped"]
            /\ UNCHANGED <<ri, hist>>
       ELSE /\ wpc' = [wpc EXCEPT ![m] = "list"]
            /\ ri' = [ri EXCEPT ![m] = 0]
            /\ hist' = [hist EXCEPT ![m].okAt = 0, ![m].attempts = 0, ![m].failed = 0,
                                    ![m].slept = 0]
    /\ UNCHANGED <<errCh, curIndex, wres>>
    /\ WatchFrame

\* a watch that goes round its loop without sending the pairs it read
AfterListDrops(e) == "loop"

\* lines 428-434: on an error watch continues its loop, else it sends the pairs
AfterList(e) == IF e # NoErr THEN "loop" ELSE "send"

\* one turn of retryableList's for loop: the (blocking) call of f, and what follows it.
\* The read wrapped by one call of retryableList fails until its attempt number okAt.
\* The return of line 463 is inside the loop, so every turn returns; watch then
\* continues its loop on an error, and goes to send the pairs otherwise.
RetryTurn(m) ==
    /\ wpc[m] = "list"
    /\ \E okAt \in world.reads :
        /\ (hist[m].attempts > 0 => okAt = hist[m].okAt)
        /\ LET n == hist[m].attempts + 1
               e == IF n >= okAt THEN NoErr ELSE Err
               p == IF e = NoErr THEN ListPairs(config.Mappings[m].Prefix) ELSE <<>>
               meta == IF e = NoErr THEN storeIndex ELSE 0
               ret == [pairs |-> p, meta |-> meta, err |-> e]
           IN  IF e # NoErr
               THEN IF ri[m] >= RetryLimit
                    THEN /\ wres' = [wres EXCEPT ![m] = [ret EXCEPT !.pairs = <<>>, !.meta = 0]]
                         /\ hist' = [hist EXCEPT ![m].okAt = okAt, ![m].attempts = n,
                                                 ![m].failed = @ + 1]
                         /\ UNCHANGED ri
                    ELSE /\ ri' = [ri EXCEPT ![m] = @ + 1]
                         /\ hist' = [hist EXCEPT ![m].okAt = okAt, ![m].attempts = n,
                                                 ![m].failed = @ + 1,
                                                 ![m].slept = @ + Backoff(ri[m] + 1)]
                         /\ wres' = [wres EXCEPT ![m] = ret]
               ELSE /\ wres' = [wres EXCEPT ![m] = ret]
                    /\ hist' = [hist EXCEPT ![m].okAt = okAt, ![m].attempts = n,
                                            ![m].okIndex = meta]
                    /\ UNCHANGED ri
    /\ wpc' = [wpc EXCEPT ![m] = AfterList(wres'[m].err)]
    /\ UNCHANGED <<errCh, curIndex>>
    /\ WatchFrame

(***************************************************************************)
(* watchMappingAndExec.                                                    *)
(***************************************************************************)
\* "If prefix starts with /, trim it."
NormPrefix(prefix) == IF prefix[1] = Slash THEN Tail(prefix) ELSE prefix

\* the trailing separator is added, then a trailing quote (byte 34) is removed
NormPath(path, sep) ==
    LET p1 == IF path[Len(path)] # sep THEN Append(path, sep) ELSE path
    IN  IF p1[Len(p1)] = Quote THEN SubSeq(p1, 1, Len(p1) - 1) ELSE p1

\* the path of key k's file: Sprintf("%s%s", Path, k), "/" replaced on Windows
KeyFile(path, k, plat) ==
    LET keyfile == path \o k
    IN  IF PathSeparator(plat) # Slash THEN ReplaceAll(keyfile, Slash, BackSlash)
        ELSE keyfile

\* newEnv as lines 211-219 build it from the pairs: a later pair overwrites an earlier one
RECURSIVE BuildEnv(_, _, _)
BuildEnv(pairs, prefix, acc) ==
    IF pairs = <<>> THEN acc
    ELSE LET k == TrimLeft(TrimPrefix(Head(pairs).Key, prefix), Slash)
         IN  BuildEnv(Tail(pairs), prefix, MapSet(acc, k, Head(pairs).Value))

\* gosecret.DecryptTags and the template's execution, when they succeed: plain bytes
\* are kept and a tagged segment (2) becomes its plaintext (3)
Render(v) == [i \in 1..Len(v) |-> IF v[i] = 2 THEN 3 ELSE v[i]]

\* the transform left out: the raw bytes are written
RenderedRaw(v, keystore) == v

\* the bytes written for value v
Rendered(v, keystore) == IF Len(keystore) > 0 THEN Render(v) ELSE v

\* the code watchMappingAndExec returns when the on-change command fails
CmdFailCode == 111

\* a failure flag that is not looked at
AggregateZero(f) == 0

\* the value watchAndExec returns
Aggregate(f) == IF f THEN -1 ELSE 0

\* how processing of one key in the write loop can end
WriteOutcomes(keystore) ==
    {"createFail", "writeFail", "syncFail", "closeFail", "ok"}
    \cup (IF Len(keystore) > 0 THEN {"decryptFail", "parseFail", "execFail"} ELSE {})

\* the outcomes that leave by "continue" after os.Create succeeded
LeavesOpen(o) == o \in {"decryptFail", "parseFail", "execFail", "writeFail"}

\* what the cycle's record keeps of an outcome: the step that ended the key's processing
Logged(o) ==
    IF o \in {"decryptFail", "parseFail", "execFail"} THEN "transformFail"
    ELSE IF o \in {"syncFail", "closeFail", "ok"} THEN "written"
    ELSE o

\* one outcome for every kind of end of a key's processing: outcomes that are logged
\* alike leave the file, and the handle, in the same state
OutcomeKinds(keystore) ==
    { CHOOSE o \in WriteOutcomes(keystore) : Logged(o) = c :
        c \in { Logged(o) : o \in WriteOutcomes(keystore) } }

Min(a, b) == IF a < b THEN a ELSE b

\* the frame of a step of mapping m's reconciler that touches no channel and no file
UnitFrame ==
    UNCHANGED <<world, store, storeIndex, spc, si, failures, result,
                errCh, curIndex, wres, ri>>

\* a close of quitCh that is deferred in run-once mode too
DeferredClosesAlways(once) == 1

\* lines 191-194: close(quitCh) is deferred when not running once
DeferredCloses(once) == IF once THEN 0 ELSE 1

\* a return of watchMappingAndExec: the deferred calls run (close(quitCh) when not
\* run-once, every deferred f.Close()), and the goroutine goes to send the code
ReturnFrom(m, code, e, closesNow) ==
    /\ returnCode' = [returnCode EXCEPT ![m] = [code |-> code, err |-> e]]
    /\ quitCh' = [quitCh EXCEPT ![m] = @ + closesNow + DeferredCloses(config.RunOnce)]
    /\ nOpen' = [nOpen EXCEPT ![m] = 0]
    /\ rpc' = [rpc EXCEPT ![m] = "report"]

\* the goroutine of watchAndExec up to the first select of watchMappingAndExec
UnitStart(m) ==
    /\ rpc[m] = "start"
    /\ LET mc == config.Mappings[m]
           oc == IF mc.OnChangeRaw # <<>> THEN Split(mc.OnChangeRaw, " ") ELSE mc.OnChange
       IN  \E e \in {NoErr, Err} :
            IF e # NoErr
            THEN \* buildConsulClient failed: return 0, err (before quitCh exists)
                 /\ config' = [config EXCEPT !.Mappings[m].OnChange = oc]
                 /\ returnCode' = [returnCode EXCEPT ![m] = [code |-> 0, err |-> e]]
                 /\ rpc' = [rpc EXCEPT ![m] = "report"]
                 /\ UNCHANGED wpc
            ELSE /\ config' = [config EXCEPT
                        !.Mappings[m].OnChange = oc,
                        !.Mappings[m].Prefix = NormPrefix(mc.Prefix),
                        !.Mappings[m].Path = NormPath(mc.Path, PathSeparator(world.platform))]
                 /\ wpc' = [wpc EXCEPT ![m] = "init"]
                 /\ rpc' = [rpc EXCEPT ![m] = "select"]
                 /\ UNCHANGED returnCode
    /\ UNCHANGED <<fs, env, newEnv, nOpen, quitCh, running, hist>>
    /\ UnitFrame

\* select, case err := <-errCh: return 0, err
ReceiveErr(m) ==
    /\ rpc[m] = "select"
    /\ errCh[m] # <<>>
    /\ errCh' = [errCh EXCEPT ![m] = Tail(@)]
    /\ ReturnFrom(m, 0, Head(errCh[m]), 0)
    /\ UNCHANGED <<config, world, store, storeIndex, fs, spc, si, failures,
                   result, env, newEnv, wpc, curIndex, wres, ri, running, hist>>

\* a watch that keeps the index it has
LastIndexKept(cur, meta) == cur

\* lines 414 and 439: curIndex = meta.LastIndex
LastIndex(cur, meta) == meta

\* select, case pairs = <-pairCh (the unbuffered send of watch completes, and watch
\* sets curIndex), then newEnv is built and compared with env
Receive(m) ==
    /\ rpc[m] = "select"
    /\ wpc[m] \in {"send0", "send"}
    /\ wpc' = [wpc EXCEPT ![m] = "loop"]
    /\ curIndex' = [curIndex EXCEPT ![m] = LastIndex(@, wres[m].meta)]
    /\ LET pairs == wres[m].pairs
           ne == BuildEnv(pairs, config.Mappings[m].Prefix, MakeMap)
       IN  /\ newEnv' = [newEnv EXCEPT ![m] = ne]
           /\ IF DeepEqual(env[m], ne)
              THEN /\ hist' = [hist EXCEPT ![m].okAt = 0, ![m].attempts = 0,
                                           ![m].failed = 0, ![m].slept = 0,
                                           ![m].lastPairs = <<pairs>>,
                                           ![m].discarded = TRUE]
                   /\ UNCHANGED rpc
              ELSE /\ hist' = [hist EXCEPT ![m].okAt = 0, ![m].attempts = 0,
                                           ![m].failed = 0, ![m].slept = 0,
                                           ![m].lastPairs = <<pairs>>,
                                           ![m].discarded = FALSE,
                                           ![m].cycles = @ + 1,
                                           ![m].prevEnv = env[m]]
                   /\ rpc' = [rpc EXCEPT ![m] = "delete"]
    /\ UNCHANGED <<config, world, store, storeIndex, fs, spc, si, failures,
                   result, returnCode, env, nOpen, errCh, quitCh, wres, ri, running>>

\* the orders in which a range loop can visit the keys S of a map
Orders(S) == { o \in [1..Cardinality(S) -> S] : \A i, j \in DOMAIN o : i # j => o[i] # o[j] }

\* a removal loop that ends at the first failed os.Remove
RECURSIVE RemoveDeletedStops(_, _, _, _, _, _)
RemoveDeletedStops(order, ne, path, refuse, files, log) ==
    IF order = <<>> THEN [fs |-> files, rm |-> log]
    ELSE LET k == Head(order)
             keyfile == KeyFile(path, k, world.platform)
             e == IF keyfile \notin DOMAIN files \/ k \in refuse THEN Err ELSE NoErr
         IN  IF k \in Keys(ne)
             THEN RemoveDeletedStops(Tail(order), ne, path, refuse, files, log)
             ELSE IF e # NoErr THEN [fs |-> files, rm |-> (k :> e) @@ log]
             ELSE RemoveDeletedStops(Tail(order), ne, path, refuse,
                                     [f \in DOMAIN files \ {keyfile} |-> files[f]],
                                     (k :> e) @@ log)

\* "for k := range env" over the keys in order: os.Remove of the file of every key
\* that is not in newEnv; a failure is logged and the loop goes on.  refuse holds the
\* keys whose removal the filesystem refuses; a missing file is always an error.
RECURSIVE RemoveDeleted(_, _, _, _, _, _)
RemoveDeleted(order, ne, path, refuse, files, log) ==
    IF order = <<>> THEN [fs |-> files, rm |-> log]
    ELSE LET k == Head(order)
             keyfile == KeyFile(path, k, world.platform)
             e == IF keyfile \notin DOMAIN files \/ k \in refuse THEN Err ELSE NoErr
         IN  IF k \in Keys(ne)
             THEN RemoveDeleted(Tail(order), ne, path, refuse, files, log)
             ELSE RemoveDeleted(Tail(order), ne, path, refuse,
                                IF e = NoErr
                                THEN [f \in DOMAIN files \ {keyfile} |-> files[f]]
                                ELSE files,
                                (k :> e) @@ log)

\* an environment that is not replaced
AssignEnvKept(cur, ne) == cur

\* line 250: env = newEnv, whatever the removals returned
AssignEnv(cur, ne) == ne

\* lines 227-250: the deletions, then env = newEnv
DeleteAll(m) ==
    /\ rpc[m] = "delete"
    /\ \E order \in Orders(Keys(env[m])), refuse \in SUBSET Keys(env[m]) :
        LET r == RemoveDeleted(order, newEnv[m], config.Mappings[m].Path, refuse,
                               fs, EmptyKV)
        IN  /\ fs' = r.fs
            /\ hist' = [hist EXCEPT ![m].rm = r.rm]
    /\ env' = [env EXCEPT ![m] = AssignEnv(@, newEnv[m])]
    /\ rpc' = [rpc EXCEPT ![m] = "write"]
    /\ UNCHANGED <<config, returnCode, newEnv, nOpen, quitCh, wpc, running>>
    /\ UnitFrame

\* "for k, v := range newEnv" over the keys in order: mkdirp, os.Create, the transform
\* when a keystore is set, Write, Sync, Close; out[k] is how the turn of key k ends
RECURSIVE WriteKeys(_, _, _, _, _, _, _)
WriteKeys(order, ne, mc, out, files, log, opened) ==
    IF order = <<>> THEN [fs |-> files, ops |-> log, opened |-> opened]
    ELSE LET k == Head(order)
             keyfile == KeyFile(mc.Path, k, world.platform)
             o == out[k]
         IN  WriteKeys(Tail(order), ne, mc, out,
                       IF o = "createFail" THEN files
                       ELSE IF LeavesOpen(o) THEN (keyfile :> <<>>) @@ files
                       ELSE (keyfile :> Rendered(ne.kv[k], mc.Keystore)) @@ files,
                       (k :> Logged(o)) @@ log,
                       IF LeavesOpen(o) THEN opened + 1 ELSE opened)

\* lines 252-363: every key of newEnv is written
WriteAll(m) ==
    /\ rpc[m] = "write"
    /\ \E order \in Orders(Keys(newEnv[m])),
          out \in [Keys(newEnv[m]) -> OutcomeKinds(config.Mappings[m].Keystore)] :
        LET r == WriteKeys(order, newEnv[m], config.Mappings[m], out, fs, EmptyKV, 0)
        IN  /\ fs' = r.fs
            /\ hist' = [hist EXCEPT ![m].ops = r.ops, ![m].rm = EmptyKV]
            /\ nOpen' = [nOpen EXCEPT ![m] = Min(@ + r.opened, MaxOpen)]
    /\ rpc' = [rpc EXCEPT ![m] = "cmd"]
    /\ UNCHANGED <<config, returnCode, env, newEnv, quitCh, wpc, running>>
    /\ UnitFrame

\* a reconciler that ignores RunOnce and always loops
AfterCycleLoops(m) ==
    /\ rpc' = [rpc EXCEPT ![m] = "select"]
    /\ UNCHANGED <<returnCode, quitCh, nOpen>>

\* lines 380-385: in run-once mode close quitCh and return 0, else loop to the select
AfterCycle(m) ==
    IF config.RunOnce
    THEN ReturnFrom(m, 0, NoErr, 1)
    ELSE /\ rpc' = [rpc EXCEPT ![m] = "select"]
         /\ UNCHANGED <<returnCode, quitCh, nOpen>>

\* an error of cmd.Run that is not looked at
RunFailedNever(e) == FALSE

\* line 375: cmd.Run returned an error (the launch failed, or the exit was nonzero)
RunFailed(e) == e # NoErr

\* a reconciler that starts the command and goes back to its select without waiting
AfterCmdStartNoWait == "select"

\* where watchMappingAndExec is after it started the command: cmd.Run waits for it
AfterCmdStart == "cmdwait"

\* lines 365-373: without a command go on; else cmd.Run starts the child, or fails to
CmdStart(m) ==
    /\ rpc[m] = "cmd"
    /\ IF config.Mappings[m].OnChange = <<>>
       THEN /\ AfterCycle(m)
            /\ hist' = [hist EXCEPT ![m].ops = EmptyKV, ![m].prevEnv = NilMap]
            /\ UNCHANGED running
       ELSE \E e \in {NoErr, Err} :
            /\ hist' = [hist EXCEPT ![m].ops = EmptyKV, ![m].prevEnv = NilMap,
                                    ![m].cmdRuns = @ + 1,
                                    ![m].cmdFailed = (e # NoErr)]
            /\ IF e # NoErr
               THEN \* the launch failed: cmd.Run returns at once
                    /\ IF RunFailed(e) THEN ReturnFrom(m, CmdFailCode, e, 0)
                       ELSE AfterCycle(m)
                    /\ UNCHANGED running
               ELSE /\ running' = [running EXCEPT ![m] = @ + 1]
                    /\ rpc' = [rpc EXCEPT ![m] = AfterCmdStart]
                    /\ UNCHANGED <<returnCode, quitCh, nOpen>>
    /\ UNCHANGED <<config, fs, env, newEnv, wpc>>
    /\ UnitFrame

\* the child exits; cmd.Run returns its status to the reconciler waiting for it
CmdExit(m) ==
    /\ running[m] > 0
    /\ running' = [running EXCEPT ![m] = @ - 1]
    /\ \E status \in {0, 1} :
        LET e == IF status # 0 THEN Err ELSE NoErr
        IN  /\ hist' = [hist EXCEPT ![m].cmdFailed = (e # NoErr)]
            /\ IF rpc[m] # "cmdwait"
               THEN UNCHANGED <<rpc, returnCode, quitCh, nOpen>>
               ELSE IF RunFailed(e)
               THEN ReturnFrom(m, CmdFailCode, e, 0)
               ELSE AfterCycle(m)
    /\ UNCHANGED <<config, fs, env, newEnv, wpc>>
    /\ UnitFrame

(***************************************************************************)
(* watchAndExec.                                                           *)
(***************************************************************************)
\* returnCode := <-returnCodes, from the goroutine of mapping m
Collect(m) ==
    /\ spc = "collect"
    /\ si < Len(config.Mappings)
    /\ rpc[m] = "report"
    /\ rpc' = [rpc EXCEPT ![m] = "done"]
    /\ failures' = (failures \/ returnCode[m].code # 0)
    /\ si' = si + 1
    /\ UNCHANGED <<config, world, store, storeIndex, fs, spc, result,
                   returnCode, env, newEnv, nOpen, errCh, quitCh, wpc, curIndex,
                   wres, ri, running, hist>>

\* the collecting loop is over
SupReturn ==
    /\ spc = "collect"
    /\ si >= Len(config.Mappings)
    /\ spc' = "returned"
    /\ result' = Aggregate(failures)
    /\ UNCHANGED <<config, world, store, storeIndex, fs, si, failures,
                   rpc, returnCode, env, newEnv, nOpen, errCh, quitCh, wpc,
                   curIndex, wres, ri, running, hist>>

Next ==
    \/ StorePut
    \/ StoreDelete
    \/ SupReturn
    \/ \E m \in Units : Collect(m)
    \/ \E m \in Units : UnitStart(m)
    \/ \E m \in Units : ReceiveErr(m)
    \/ \E m \in Units : Receive(m)
    \/ \E m \in Units : DeleteAll(m)
    \/ \E m \in Units : WriteAll(m)
    \/ \E m \in Units : CmdStart(m)
    \/ \E m \in Units : CmdExit(m)
    \/ \E m \in Units : WatchInit(m)
    \/ \E m \in Units : WatchLoop(m)
    \/ \E m \in Units : RetryTurn(m)

Spec == Init /\ [][Next]_vars

(***************************************************************************)
(* The claims.                                                             *)
(***************************************************************************)
\* watchMappingAndExec of mapping m has returned
Returned(m) == rpc[m] \in {"report", "done"}

\* the last call of retryableList by mapping m's watch has returned
ListReturned(m) == wpc[m] # "list" /\ hist[m].attempts > 0

\* C1: when the wrapped read fails on every attempt, retryableList returns the error
\* after exactly 4 attempts (1 initial attempt and 3 retries).
C1_FourAttemptsBeforeError ==
    \A m \in Units :
        (ListReturned(m) /\ hist[m].okAt > 4)
            => (wres[m].err # NoErr /\ hist[m].attempts = 4 /\ hist[m].failed = 4)

\* C2: for every k in 1..4, when the wrapped read fails on attempts 1..k-1 and succeeds
\* on attempt k, retryableList returns the result of attempt k, without error, after
\* exactly k attempts.
C2_SucceedsOnAttemptK ==
    \A m \in Units : \A k \in 1..4 :
        (ListReturned(m) /\ hist[m].okAt = k)
            => (wres[m].err = NoErr /\ hist[m].attempts = k /\ hist[m].failed = k - 1)

\* C3: a mapping whose initial read fails writes no file and runs no command, its unit
\* reports a nonzero code, and the value watchAndExec returns is then nonzero.
C3_InitialReadFailureIsNonzero ==
    \A m \in Units :
        hist[m].initFailed =>
            /\ hist[m].cycles = 0
            /\ hist[m].cmdRuns = 0
            /\ (Returned(m) => returnCode[m].code # 0)
            /\ (spc = "returned" => result # 0)

\* C4: watchAndExec returns only after every unit has reported, it has received one
\* code from each unit that reported and none twice, and it returns 0 if and only if
\* every unit's code is 0, and -1 otherwise.
C4_SupervisorAggregate ==
    /\ si = Cardinality({m \in Units : rpc[m] = "done"})
    /\ spc = "returned" =>
        /\ \A m \in Units : rpc[m] = "done"
        /\ (result = 0) <=> (\A m \in Units : returnCode[m].code = 0)
        /\ result \in {0, -1}

\* two units reported, one with 0 and one with 111, and watchAndExec returned -1
C4_Witness ==
    /\ spc = "returned"
    /\ Len(config.Mappings) = 2
    /\ \E m, o \in Units : returnCode[m].code = 0 /\ returnCode[o].code = 111
    /\ result = -1

\* what holds once mapping m's on-change command has failed, and of every unit's code
C5_State ==
    \A m \in Units :
        /\ hist[m].cmdFailed =>
            /\ Returned(m)
            /\ returnCode[m].code = 111
            /\ (spc = "returned" => result # 0)
        /\ (Returned(m) /\ ~hist[m].cmdFailed) => returnCode[m].code = 0

\* the step in which mapping m's command fails leaves every other mapping as it is,
\* and after it mapping m receives no snapshot and starts no cycle
C5_Step ==
    \A m \in Units :
        /\ (~hist[m].cmdFailed /\ hist'[m].cmdFailed) =>
            \A o \in Units \ {m} :
                /\ rpc'[o] = rpc[o] /\ wpc'[o] = wpc[o] /\ quitCh'[o] = quitCh[o]
                /\ returnCode'[o] = returnCode[o] /\ errCh'[o] = errCh[o]
                /\ env'[o] = env[o] /\ running'[o] = running[o]
        /\ hist[m].cmdFailed =>
            /\ hist'[m].lastPairs = hist[m].lastPairs
            /\ hist'[m].cycles = hist[m].cycles
            /\ hist'[m].cmdRuns = hist[m].cmdRuns

\* C5: when a mapping's on-change command fails to launch or exits nonzero, its
\* reconciler processes no further snapshot and its unit reports 111; no other
\* mapping's unit is stopped or has its code changed (a unit whose own command did not
\* fail reports 0), and the value watchAndExec returns is nonzero.
C5_CommandFailureIsIsolated == []C5_State /\ [][C5_Step]_vars

\* mapping m's command failed and it reported 111, another mapping ran its command
\* and reported 0, and watchAndExec returned -1
C5_Witness ==
    \E m, o \in Units :
        /\ m # o
        /\ hist[m].cmdFailed /\ rpc[m] = "done" /\ returnCode[m].code = 111
        /\ ~hist[o].cmdFailed /\ hist[o].cmdRuns = 1 /\ rpc[o] = "done"
        /\ returnCode[o].code = 0
        /\ spc = "returned" /\ result = -1

\* mapping m's reconciler receives a snapshot in this step
Receives(m) == rpc[m] = "select" /\ wpc[m] \in {"send0", "send"} /\ wpc'[m] = "loop"

\* C6: when the snapshot received is the snapshot received just before it, nothing is
\* deleted, created, written or transformed, no command is started, the environment
\* stays as it is and the reconciler goes on waiting.
C6_Idempotence ==
    [][\A m \in Units :
        (Receives(m) /\ hist[m].lastPairs = <<wres[m].pairs>>) =>
            /\ fs' = fs
            /\ env'[m] = env[m]
            /\ rpc'[m] = "select"
            /\ running' = running
            /\ nOpen' = nOpen
            /\ hist'[m].cycles = hist[m].cycles
            /\ hist'[m].cmdRuns = hist[m].cmdRuns]_vars

\* a snapshot with keys was applied, and delivered again it has been discarded
C6_Witness ==
    \E m \in Units :
        /\ hist[m].discarded
        /\ hist[m].cycles >= 1
        /\ Keys(env[m]) # {}
        /\ rpc[m] = "select"

\* C7 as stated: in run-once mode a unit whose initial read succeeded terminates with
\* code 0 after exactly one cycle and at most one command execution.
C7_RunOnceAsStated ==
    \A m \in Units :
        config.RunOnce =>
            /\ hist[m].cycles <= 1
            /\ hist[m].cmdRuns <= 1
            /\ (Returned(m) /\ hist[m].lastPairs # <<>>) =>
                (hist[m].cycles = 1 /\ returnCode[m].code = 0)

\* C7 amended: in run-once mode a unit whose initial read succeeded terminates after
\* exactly one cycle and at most one command execution, with code 0 when the command
\* did not fail (or none is configured) and with code 111 when it failed.
C7_RunOnceTermination ==
    \A m \in Units :
        config.RunOnce =>
            /\ hist[m].cycles <= 1
            /\ hist[m].cmdRuns <= 1
            /\ (Returned(m) /\ hist[m].lastPairs # <<>>) =>
                /\ hist[m].cycles = 1
                /\ hist[m].cmdRuns = (IF config.Mappings[m].OnChange = <<>> THEN 0 ELSE 1)
                /\ returnCode[m].code = (IF hist[m].cmdFailed THEN 111 ELSE 0)

\* a run-once unit returned 0 after one cycle and one command, while its watcher holds
\* a further, different snapshot that is never applied
C7_Witness ==
    \E m \in Units :
        /\ config.RunOnce
        /\ Returned(m) /\ returnCode[m].code = 0
        /\ hist[m].cycles = 1 /\ hist[m].cmdRuns = 1
        /\ wpc[m] = "send" /\ <<wres[m].pairs>> # hist[m].lastPairs

\* the bytes the file of a key with value v is to hold
Expected(m, v) ==
    IF config.Mappings[m].Keystore # <<>>
    THEN [i \in 1..Len(v) |-> IF v[i] = 2 THEN 3 ELSE v[i]]
    ELSE v

\* C8: when the writes of an accepted cycle are over, the file of every key of the
\* snapshot whose create, transform and write did not fail exists at root path +
\* relative key and holds the value's bytes (the transform's output with a keystore).
C8_Completeness ==
    \A m \in Units :
        rpc[m] = "cmd" =>
            /\ DOMAIN hist[m].ops = Keys(newEnv[m])
            /\ env[m] = newEnv[m]
            /\ \A k \in Keys(env[m]) :
                hist[m].ops[k] = "written" =>
                    LET keyfile == KeyFile(config.Mappings[m].Path, k, world.platform)
                    IN  /\ keyfile \in DOMAIN fs
                        /\ fs[keyfile] = Expected(m, env[m].kv[k])

\* a cycle after the first rewrote the file of a key whose value did not change, with
\* a keystore set and a value the transform changes
C8_Witness ==
    \E m \in Units :
        /\ rpc[m] = "cmd"
        /\ ~hist[m].prevEnv.isNil
        /\ config.Mappings[m].Keystore # <<>>
        /\ \E k \in Keys(env[m]) \cap Keys(hist[m].prevEnv) :
            /\ hist[m].prevEnv.kv[k] = env[m].kv[k]
            /\ env[m].kv[k] = <<2>>
            /\ hist[m].ops[k] = "written"
            /\ fs[KeyFile(config.Mappings[m].Path, k, world.platform)] = <<3>>

\* C9: the deletions of an accepted cycle call os.Remove for exactly the keys of the
\* prior environment that the new snapshot lacks, a failed removal or not; a removal
\* that succeeded removed the key's file, and no other file is removed or changed.
C9_DeletionPrecision ==
    [][\A m \in Units :
        (rpc[m] = "delete" /\ rpc'[m] = "write") =>
            LET deleted == Keys(env[m]) \ Keys(newEnv[m])
                file(k) == KeyFile(config.Mappings[m].Path, k, world.platform)
            IN  /\ DOMAIN hist'[m].rm = deleted
                /\ \A k \in deleted : hist'[m].rm[k] = NoErr => file(k) \notin DOMAIN fs'
                /\ DOMAIN fs' \subseteq DOMAIN fs
                /\ \A f \in DOMAIN fs :
                    IF f \in DOMAIN fs' THEN fs'[f] = fs[f]
                    ELSE \E k \in deleted : f = file(k) /\ hist'[m].rm[k] = NoErr]_vars

\* the deletions of a cycle are over: one removal failed, another removed its file,
\* and a file that belongs to no key is still there
C9_Witness ==
    \E m \in Units :
        /\ rpc[m] = "write"
        /\ \E k1, k2 \in DOMAIN hist[m].rm :
            /\ hist[m].rm[k1] = Err
            /\ hist[m].rm[k2] = NoErr
            /\ KeyFile(config.Mappings[m].Path, k1, world.platform) \in DOMAIN fs
            /\ KeyFile(config.Mappings[m].Path, k2, world.platform) \notin DOMAIN fs
        /\ <<"o", "/", "z">> \in DOMAIN fs

\* C10: at most one on-change command of a mapping is running, and while it is running
\* the mapping's reconciler is inside cmd.Run: it is not at its select and has not
\* received or begun to process another snapshot.
C10_Serialization ==
    \A m \in Units :
        /\ running[m] <= 1
        /\ running[m] = 1 => rpc[m] = "cmdwait"

\* a command is running while the watcher waits to hand over the next snapshot
C10_Witness ==
    \E m \in Units :
        /\ running[m] = 1
        /\ rpc[m] = "cmdwait"
        /\ wpc[m] = "send"
        /\ hist[m].cycles >= 1

\* mapping m's watch completes a send on pairCh in this step
Delivers(m) == wpc[m] \in {"send0", "send"} /\ wpc'[m] # wpc[m]

\* the last successful read of a watch that is not about to send has been received
C11_State ==
    \A m \in Units :
        (wpc[m] = "loop" /\ wres[m].err = NoErr) => hist[m].lastPairs = <<wres[m].pairs>>

\* a send completes only into a reconciler at its select with no cycle in progress,
\* which receives the pairs of the read; the pairs read are held unchanged until then;
\* and the reconciler receives pairs, or starts a cycle, in no other step
C11_Step ==
    \A m \in Units :
        /\ Delivers(m) =>
            /\ wpc'[m] = "loop"
            /\ wres[m].err = NoErr
            /\ rpc[m] = "select" /\ running[m] = 0
            /\ hist[m].rm = EmptyKV /\ hist[m].ops = EmptyKV
            /\ hist'[m].lastPairs = <<wres[m].pairs>>
            /\ newEnv'[m] = BuildEnv(wres[m].pairs, config.Mappings[m].Prefix, MakeMap)
        /\ wpc[m] \in {"send0", "send"} => wres'[m] = wres[m]
        /\ (wpc[m] \notin {"send0", "send"} /\ wpc'[m] \in {"send0", "send"}) =>
            /\ wres'[m].err = NoErr
            /\ wres'[m].pairs = ListPairs(config.Mappings[m].Prefix)
        /\ (hist'[m].lastPairs # hist[m].lastPairs \/ hist'[m].cycles # hist[m].cycles
                \/ newEnv'[m] # newEnv[m]) => Delivers(m)

\* C11: the snapshots the reconciler receives are the snapshots the watcher's
\* successful reads returned, each received once, in the order read (a read's pairs
\* are handed over before the next read is made, none is lost or replaced), and the
\* reconciler has finished the cycle of one snapshot when it receives the next.
C11_Ordering == []C11_State /\ [][C11_Step]_vars

\* three different snapshots were read and received one after the other, each applied
\* by a cycle of its own
C11_Witness ==
    \E m \in Units :
        /\ hist[m].cycles = 3
        /\ rpc[m] = "select" /\ wpc[m] = "loop"
        /\ wres[m].meta = 2
        /\ hist[m].lastPairs = <<wres[m].pairs>>

\* once quitCh is closed, watch is not in a send on pairCh: every close of quitCh is
\* at a return of the reconciler, the only receiver, so such a send never completes
C12_State ==
    \A m \in Units : quitCh[m] > 0 => wpc[m] \notin {"send0", "send"}

\* once quitCh is closed, watch starts no further read, and once stopped it stays so
C12_Step ==
    \A m \in Units :
        /\ (quitCh[m] > 0 /\ wpc[m] # "list") => wpc'[m] # "list"
        /\ wpc[m] = "stopped" => wpc'[m] = "stopped"

\* C12: once quitCh is closed the watcher stops after the read in flight, if any, has
\* returned: it starts no further read and is not left blocked in a send of pairs to a
\* reconciler that has returned.
C12_CancellationHonored == []C12_State /\ [][C12_Step]_vars

\* C13: when the reconciler has returned because its on-change command failed, quitCh
\* is closed, with RunOnce set or not.
C13_StopSignalOnCommandFailure ==
    \A m \in Units :
        (Returned(m) /\ hist[m].cmdFailed /\ returnCode[m].code = CmdFailCode)
            => quitCh[m] > 0

\* C14: env holds no key when the reconciler starts, and the first snapshot received,
\* when it holds no pair, is discarded: the reconciler stays at its select, no file is
\* touched, no cycle and no command is started, env stays as it is and the unit does
\* not return.
C14_FirstEmptySnapshotDiscarded ==
    [][\A m \in Units :
        (Receives(m) /\ hist[m].lastPairs = <<>> /\ wres[m].pairs = <<>>) =>
            /\ Keys(env[m]) = {}
            /\ hist'[m].discarded
            /\ rpc'[m] = "select"
            /\ fs' = fs
            /\ env'[m] = env[m]
            /\ running' = running
            /\ hist'[m].cycles = 0
            /\ hist'[m].cmdRuns = 0]_vars

\* the call of retryableList by mapping m's watch returns in this step
ListReturns(m) == wpc[m] = "list" /\ wpc'[m] # "list"

\* the index watch waits on is the index of its last read that succeeded and was sent
C15_State ==
    \A m \in Units :
        wpc[m] \in {"loop", "list"} => curIndex[m] = hist[m].okIndex

\* a read that succeeds is followed by the send of its pairs, and the completed send by
\* curIndex taking the read's index, the pairs discarded by the reconciler or not; a
\* call of retryableList that returns an error sends nothing, leaves curIndex, errCh
\* and the reconciler as they are, and watch is back at the top of its loop, which it
\* leaves for the next read as long as quitCh is open
C15_Step ==
    \A m \in Units :
        /\ (ListReturns(m) /\ wres'[m].err = NoErr) =>
            /\ wpc'[m] = "send"
            /\ wres'[m].pairs = ListPairs(config.Mappings[m].Prefix)
            /\ wres'[m].meta = storeIndex
        /\ Delivers(m) => curIndex'[m] = wres[m].meta
        /\ (ListReturns(m) /\ wres'[m].err # NoErr) =>
            /\ wpc'[m] = "loop"
            /\ curIndex'[m] = curIndex[m]
            /\ errCh'[m] = errCh[m]
            /\ rpc'[m] = rpc[m]
            /\ returnCode'[m] = returnCode[m]
            /\ hist'[m].lastPairs = hist[m].lastPairs
        /\ (wpc[m] = "loop" /\ wpc'[m] # "loop" /\ quitCh[m] = 0) => wpc'[m] = "list"

\* C15: in watch's loop a read that succeeds has its pairs sent and its index becomes
\* the wait index, the content changed or not, so every read waits on the index of the
\* last read that succeeded; a read that fails sends nothing, leaves the wait index,
\* writes nothing to errCh and leads back to the top of the loop, so the reconciler
\* is not stopped by it.
C15_WatcherLoop == []C15_State /\ [][C15_Step]_vars

\* a snapshot read at index 2 was sent and discarded as unchanged, the wait index is
\* 2, and the read after it failed: watch is at the top of its loop, errCh is empty
\* and the reconciler is at its select
C15_Witness ==
    \E m \in Units :
        /\ wpc[m] = "loop" /\ wres[m].err # NoErr /\ hist[m].failed >= 1
        /\ hist[m].discarded /\ hist[m].cycles >= 1
        /\ curIndex[m] = 2 /\ hist[m].okIndex = 2
        /\ errCh[m] = <<>> /\ rpc[m] = "select" /\ quitCh[m] = 0

\* C16: a file opened for a key is closed when the key's turn of the write loop ends,
\* however it ends, so no file of an earlier cycle is open while the reconciler waits
\* at its select for the next snapshot.
C16_HandlesReleased ==
    \A m \in Units : rpc[m] = "select" => nOpen[m] = 0

\* C17: in the writes of a cycle, the file of a key whose transform (decrypt, parse or
\* execute) fails is left as it was, present with the same bytes or absent, while the
\* keys whose turn went through are written, env is the new environment and the
\* reconciler goes on to the on-change command.
C17_TransformFailureSkipsKey ==
    [][\A m \in Units :
        (rpc[m] = "write" /\ rpc'[m] = "cmd") =>
            LET file(k) == KeyFile(config.Mappings[m].Path, k, world.platform)
            IN  /\ env'[m] = newEnv[m]
                /\ DOMAIN hist'[m].ops = Keys(newEnv[m])
                /\ \A k \in Keys(newEnv[m]) :
                    /\ hist'[m].ops[k] = "transformFail" =>
                        /\ file(k) \in DOMAIN fs' <=> file(k) \in DOMAIN fs
                        /\ file(k) \in DOMAIN fs => fs'[file(k)] = fs[file(k)]
                    /\ hist'[m].ops[k] = "written" =>
                        /\ file(k) \in DOMAIN fs'
                        /\ fs'[file(k)] = Expected(m, newEnv[m].kv[k])]_vars

\* the environment built from the snapshot mapping m's reconciler received last
Candidate(m) == BuildEnv(hist[m].lastPairs[1], config.Mappings[m].Prefix, MakeMap)

\* from the end of the deletions of an accepted cycle on, env is the candidate
C18_State ==
    \A m \in Units :
        (hist[m].cycles >= 1 /\ rpc[m] # "delete") =>
            (env[m] = Candidate(m) /\ env[m] = newEnv[m])

\* the writes and the command leave env as it is, whatever failed; and after a cycle
\* a snapshot whose candidate equals env is discarded: no file operation is made
C18_Step ==
    \A m \in Units :
        /\ rpc[m] \in {"write", "cmd", "cmdwait"} => env'[m] = env[m]
        /\ (Receives(m) /\ hist[m].cycles >= 1
                /\ BuildEnv(wres[m].pairs, config.Mappings[m].Prefix, MakeMap).kv = env[m].kv)
            => /\ hist'[m].discarded
               /\ rpc'[m] = "select"
               /\ fs' = fs /\ nOpen' = nOpen /\ env'[m] = env[m]
               /\ hist'[m].cycles = hist[m].cycles

\* C18: after every accepted cycle env is the candidate built from the accepted
\* snapshot, whether its removals, creates, transforms and writes failed or not, so a
\* following snapshot with the same content is discarded and the failed file operation
\* is not made again.
C18_EnvironmentReplaced == []C18_State /\ [][C18_Step]_vars

\* a cycle in which the create of a key's file failed is over, the same content came
\* again and was discarded, and the key's file is still missing
C18_Witness ==
    \E m \in Units :
        /\ rpc[m] = "select" /\ hist[m].discarded /\ hist[m].cycles = 1
        /\ env[m] = Candidate(m)
        /\ \E k \in Keys(env[m]) :
            KeyFile(config.Mappings[m].Path, k, world.platform) \notin DOMAIN fs

\* C19: when the root path configured for a mapping ends with a double quote, the path
\* the unit works with after its normalisation has that quote removed and ends with the
\* platform's path separator.
C19_TrailingQuoteStripped ==
    \A m \in Units :
        LET given == world.paths[m]
            p == config.Mappings[m].Path
        IN  (wpc[m] # "idle" /\ given[Len(given)] = Quote) =>
                /\ p[Len(p)] = PathSeparator(world.platform)
                /\ ~HasPrefix(p, given)

\* C20: quitCh is closed at most once, by whichever return the reconciler leaves
\* (error of the initial read, failed command, end of the run-once cycle) and with
\* RunOnce set or not.
C20_QuitClosedAtMostOnce ==
    \A m \in Units :
        /\ quitCh[m] <= 1
        /\ quitCh[m] = 1 => Returned(m)

\* a run-once unit returned 0 after its cycle and closed quitCh, while another unit of
\* the same run returned on the error of its initial read
C20_Witness ==
    \E m, o \in Units :
        /\ config.RunOnce
        /\ Returned(m) /\ returnCode[m].code = 0 /\ hist[m].cycles = 1
        /\ quitCh[m] = 1
        /\ Returned(o) /\ hist[o].initFailed /\ returnCode[o].err # NoErr

====
